---------------------------- MODULE Spec2Model ----------------------------
(***************************************************************************)
(* Model of the knowledge-platform backend: the text chunker               *)
(* (app/utils/file_processor.py), the retrieval handlers                   *)
(* (app/routers/search.py), the document handlers                          *)
(* (app/routers/documents.py) and the chat-session handlers                *)
(* (app/routers/chat.py) over the document store and the vector index.     *)
(*                                                                         *)
(* Six specifications share the module.  SpecChunk runs chunk_text on a    *)
(* bounded family of texts and parameters, one loop iteration per step.    *)
(* Spec runs search_documents and find_similar_documents against a store   *)
(* that holds documents, chunks and vectors, one step per suspension point *)
(* of the handler; the vector index is an external service, so its content *)
(* is an input.  SpecStore runs uploads, deletions, lookups and chat       *)
(* requests from the empty store of a fresh deployment.  SpecShared runs   *)
(* uploads, deletions and searches of several users over one store that    *)
(* already holds their documents, SpecChat runs the chat handlers over     *)
(* that store, and SpecSnippet runs _extract_snippet on a bounded family   *)
(* of contents, queries and lengths.                                       *)
(*                                                                         *)
(* Text is a sequence of one-character strings.  Relevance scores are      *)
(* integers in hundredths (0.8 is 80).                                     *)
(***************************************************************************)
EXTENDS Integers, Sequences, FiniteSets, TLC

VARIABLES
    \* ---- chunk_text: arguments and locals --------------------------------
    text,          \* the argument, rebound to text.strip() at line 173
    chunk_size,    \* argument
    overlap,       \* argument
    start,         \* local: window start
    chunks,        \* local: the list being returned
    windows,       \* history: the window [start, end) of each appended chunk
    raw,           \* history: the window [start, end) of every loop iteration
    iters,         \* history: number of iterations of the while loop
    cpc,           \* position in chunk_text: "idle", "entry", "loop", "done"
    \* ---- the document store and the vector index -------------------------
    documents,     \* table documents: id -> row
    dchunks,       \* table document_chunks: id -> row
    vindex,        \* the vectors of the index, with their metadata
    dialect,       \* how the store compares a string with an integer key
    \* ---- the request being handled ---------------------------------------
    pc,            \* position in the handler
    req,           \* the arguments of the request
    text_results,  \* search_documents: rows of the lexical query
    results,       \* the list `results` / `similar_docs`
    response,      \* the list returned to the caller
    outcome,       \* "none", "returned", "raised", "not_found"
    query_embedding, \* search_documents: "unset", "null", "vector"
    src_rows,      \* find_similar_documents: the rows of `chunks`
    src_chunks,    \* find_similar_documents: the source chunks still to query
    search_query,  \* the SearchQuery row of this request
    activity,      \* the UserActivity row of this request
    tx,            \* the session's transaction: "none", "active", "failed"
    sem_error,     \* history: an exception was caught in the semantic pass
    hit_docs,      \* history: documents the hits resolved to
    dup_docs,      \* history: documents a hit found already in the list
    embed_calls,   \* history: calls of create_embedding in this request
    vector_queries, \* history: calls of search_similar in this request
    answer_docs,   \* history: documents the ids the index answered with resolve to
    log_fault,     \* history: the commit of the logs that failed, or "none"
    \* ---- ingestion, deletion and chat -----------------------------------
    files,         \* the paths present in the upload directory
    sessions,      \* table chat_sessions: id -> row
    messages,      \* table chat_messages: session id -> rows by timestamp
    doc_seq,       \* the id sequence of table documents
    chunk_seq,     \* the id sequence of table document_chunks
    file_seq,      \* the unique file names handed out so far
    session_seq,   \* the id sequence of table chat_sessions
    uploads,       \* upload requests taken so far
    sends,         \* send_message requests taken so far
    up_doc,        \* upload_document: db_document.id
    up_chunks,     \* upload_document: the list `chunks`
    up_embedded,   \* history: per chunk, whether create_embedding gave a vector
    pending,       \* upload_document: chunk rows added to the session, not committed
    del_ids,       \* delete_document: the list `chunk_ids`
    \* ---- _extract_snippet: arguments and result ---------------------------
    sn_content,    \* argument `content`
    sn_query,      \* argument `query`
    sn_length,     \* argument `snippet_length`
    snippet,       \* the string returned
    spc            \* position in _extract_snippet: "idle", "call", "done"

chunkVars == <<text, chunk_size, overlap, start, chunks, windows, raw, iters, cpc>>

storeVars == <<documents, dchunks, vindex, dialect>>

requestVars ==
    <<pc, req, text_results, results, response, outcome, query_embedding, src_rows,
      src_chunks, search_query, activity, tx, sem_error, hit_docs, dup_docs,
      embed_calls, vector_queries, answer_docs, log_fault>>

ingestVars ==
    <<files, sessions, messages, doc_seq, chunk_seq, file_seq, session_seq, uploads,
      sends, up_doc, up_chunks, up_embedded, pending, del_ids>>

snippetVars == <<sn_content, sn_query, sn_length, snippet, spc>>

vars == <<chunkVars, storeVars, requestVars, ingestVars, snippetVars>>

-----------------------------------------------------------------------------
(* Bounds of the model *)

MaxLen == 4        \* longest short text
MaxChunk == 3      \* largest small chunk_size
MaxOverlap == 3    \* largest small overlap
NumUsers == 2      \* users of the platform
MaxLimit == 2      \* largest `limit` of a request
MaxHits == 2       \* most matches one vector query answers with
MaxUploads == 1    \* upload requests in a behaviour
MaxSessions == 1   \* chat sessions created in a behaviour
MaxSends == 1      \* send_message requests in a behaviour
MaxContent == 4  \* longest content handed to _extract_snippet
MaxQuery == 2    \* longest query handed to _extract_snippet
MaxSnippet == 3  \* largest snippet_length

(* Program constants *)

BreakWindow == 200   \* file_processor.py line 192
SpaceWindow == 100   \* file_processor.py line 194
TextScore == 80      \* search.py line 55: 0.8, in hundredths
SimilarChunkLimit == 3   \* search.py line 131
DefaultChunkSize == 1000 \* file_processor.py line 167
DefaultOverlap == 200    \* file_processor.py line 167
ChatTopK == 5            \* chat.py line 122
TopKFactor == 2      \* search.py line 141

-----------------------------------------------------------------------------
(* Integer helpers *)

Max2(a, b) == IF a >= b THEN a ELSE b
Min2(a, b) == IF a <= b THEN a ELSE b
SetMax(S) == CHOOSE x \in S : \A y \in S : y <= x

-----------------------------------------------------------------------------
(* Python string primitives used by chunk_text, on sequences of characters *)

NL == "\n"
Alphabet == {"a", " ", ".", NL}

\* the characters str.strip() removes, within the alphabet
IsSpace(c) == c \in {" ", NL}

RECURSIVE LStrip(_)
LStrip(s) == IF s # <<>> /\ IsSpace(Head(s)) THEN LStrip(Tail(s)) ELSE s

RECURSIVE RStrip(_)
RStrip(s) ==
    IF s # <<>> /\ IsSpace(s[Len(s)]) THEN RStrip(SubSeq(s, 1, Len(s) - 1)) ELSE s

\* mutant of Strip: only the leading whitespace is removed
Strip_LeftOnly(s) == LStrip(s)

\* str.strip()
Strip(s) == RStrip(LStrip(s))

\* a slice bound as Python normalises it: negative counts from the end,
\* then clipped to [0, len]
NormIndex(i, n) == IF i < 0 THEN Max2(i + n, 0) ELSE Min2(i, n)

\* s[a:b]
Slice(s, a, b) ==
    LET lo == NormIndex(a, Len(s))
        hi == NormIndex(b, Len(s))
    IN  IF hi <= lo THEN <<>> ELSE SubSeq(s, lo + 1, hi)

\* s.rfind(ch, a, b): the highest 0-based index in [a, b) holding ch, or -1
RFind(s, ch, a, b) ==
    LET lo == NormIndex(a, Len(s))
        hi == NormIndex(b, Len(s))
        at == {i \in lo .. (hi - 1) : s[i + 1] = ch}
    IN  IF at = {} THEN -1 ELSE SetMax(at)

\* a run of n letters
Fill(n) == [i \in 1 .. n |-> "a"]

-----------------------------------------------------------------------------
(* chunk_text, file_processor.py lines 167-208 *)

\* mutant of ChunkEnd: the last-window test of line 185 is dropped, so the
\* boundary search also runs on the final window
ChunkEnd_AlwaysSnap(t, st, cs) ==
    LET end0 == st + cs
        last_period  == RFind(t, ".", st, end0)
        last_newline == RFind(t, NL, st, end0)
        last_space   == RFind(t, " ", st, end0)
        break_point  == Max2(last_period, last_newline)
    IN  IF break_point > st + cs - BreakWindow
        THEN break_point + 1
        ELSE IF last_space > st + cs - SpaceWindow
             THEN last_space
             ELSE end0

\* lines 182-195: the end of the window that starts at `st`
ChunkEnd(t, st, cs) ==
    LET end0 == st + cs
    IN  IF end0 < Len(t)
        THEN LET last_period  == RFind(t, ".", st, end0)
                 last_newline == RFind(t, NL, st, end0)
                 last_space   == RFind(t, " ", st, end0)
                 break_point  == Max2(last_period, last_newline)
             IN  IF break_point > st + cs - BreakWindow
                 THEN break_point + 1
                 ELSE IF last_space > st + cs - SpaceWindow
                      THEN last_space
                      ELSE end0
        ELSE end0

\* mutant of NextStart: the max(start + 1, ...) guard is dropped
NextStart_NoGuard(st, end, ov) == end - ov

\* line 206: the start of the next window
NextStart(st, end, ov) == Max2(st + 1, end - ov)

\* the parameters the chunker's contract excludes
Malformed == chunk_size <= overlap \/ overlap < 0

\* mutant of ChunkEntry: malformed parameters are rejected before any work
ChunkEntry_Validating ==
    /\ cpc = "entry"
    /\ IF Malformed
       THEN /\ cpc' = "error"
            /\ UNCHANGED <<text, start, chunks, windows>>
       ELSE LET stripped == Strip(text)
            IN  IF stripped = <<>>
                THEN /\ chunks' = <<>>
                     /\ windows' = <<>>
                     /\ cpc' = "done"
                     /\ UNCHANGED <<text, start>>
                ELSE IF Len(stripped) <= chunk_size
                THEN /\ text' = stripped
                     /\ chunks' = <<stripped>>
                     /\ windows' = << [from |-> 0, to |-> Len(stripped)] >>
                     /\ cpc' = "done"
                     /\ UNCHANGED start
                ELSE /\ text' = stripped
                     /\ chunks' = <<>>
                     /\ windows' = <<>>
                     /\ start' = 0
                     /\ cpc' = "loop"
    /\ UNCHANGED <<chunk_size, overlap, iters, raw>>
    /\ UNCHANGED <<storeVars, requestVars, ingestVars, snippetVars>>

\* mutant of ChunkEntry: line 169 tests only `not text`, so a text of blanks
\* reaches the length test
ChunkEntry_NoBlankTest ==
    /\ cpc = "entry"
    /\ LET stripped == Strip(text)
       IN  IF text = <<>>
           THEN /\ chunks' = <<>>
                /\ windows' = <<>>
                /\ cpc' = "done"
                /\ UNCHANGED <<text, start>>
           ELSE IF Len(stripped) <= chunk_size
           THEN /\ text' = stripped
                /\ chunks' = <<stripped>>
                /\ windows' = << [from |-> 0, to |-> Len(stripped)] >>
                /\ cpc' = "done"
                /\ UNCHANGED start
           ELSE /\ text' = stripped
                /\ chunks' = <<>>
                /\ windows' = <<>>
                /\ start' = 0
                /\ cpc' = "loop"
    /\ UNCHANGED <<chunk_size, overlap, iters, raw>>
    /\ UNCHANGED <<storeVars, requestVars, ingestVars, snippetVars>>

\* lines 169-179: the guards before the loop
ChunkEntry ==
    /\ cpc = "entry"
    /\ LET stripped == Strip(text)
       IN  IF stripped = <<>>
           THEN /\ chunks' = <<>>
                /\ windows' = <<>>
                /\ cpc' = "done"
                /\ UNCHANGED <<text, start>>
           ELSE IF Len(stripped) <= chunk_size
           THEN /\ text' = stripped
                /\ chunks' = <<stripped>>
                /\ windows' = << [from |-> 0, to |-> Len(stripped)] >>
                /\ cpc' = "done"
                /\ UNCHANGED start
           ELSE /\ text' = stripped
                /\ chunks' = <<>>
                /\ windows' = <<>>
                /\ start' = 0
                /\ cpc' = "loop"
    /\ UNCHANGED <<chunk_size, overlap, iters, raw>>
    /\ UNCHANGED <<storeVars, requestVars, ingestVars, snippetVars>>

\* lines 181-206: one iteration of the while loop
ChunkIter ==
    /\ cpc = "loop"
    /\ start < Len(text)
    /\ LET end   == ChunkEnd(text, start, chunk_size)
           chunk == Strip(Slice(text, start, end))
       IN  /\ IF chunk # <<>>
              THEN /\ chunks' = Append(chunks, chunk)
                   /\ windows' = Append(windows, [from |-> start, to |-> end])
              ELSE UNCHANGED <<chunks, windows>>
           /\ raw' = Append(raw, [from |-> start, to |-> end])
           /\ IF end >= Len(text)
              THEN /\ cpc' = "done"
                   /\ UNCHANGED start
              ELSE /\ start' = NextStart(start, end, overlap)
                   /\ UNCHANGED cpc
    /\ iters' = iters + 1
    /\ UNCHANGED <<text, chunk_size, overlap>>
    /\ UNCHANGED <<storeVars, requestVars, ingestVars, snippetVars>>

\* line 181 false, line 208: the loop condition fails and the list is returned
ChunkExit ==
    /\ cpc = "loop"
    /\ start >= Len(text)
    /\ cpc' = "done"
    /\ UNCHANGED <<text, chunk_size, overlap, start, chunks, windows, raw, iters>>
    /\ UNCHANGED <<storeVars, requestVars, ingestVars, snippetVars>>

-----------------------------------------------------------------------------
(* The document store (app/models.py) and the vector index                  *)
(* (app/services/vector_service.py)                                         *)

Users == 1 .. NumUsers

\* the id a vector carries: str(chunk id), as the index returns it
IdStr(n) == ToString(n)

\* the strings the store can compare with an integer primary key
NumericIds == {IdStr(n) : n \in 0 .. 99}
IsNumeric(id) == id \in NumericIds

\* str.__contains__ / Column.contains: q occurs in s as a contiguous run
Contains(s, q) ==
    \E i \in 0 .. (Len(s) - Len(q)) : SubSeq(s, i + 1, i + Len(q)) = q

\* Document, models.py lines 23-38
DocumentRow(u, name, body, at, path) ==
    [user_id |-> u, original_filename |-> name, content |-> body, created_at |-> at,
     file_path |-> path]

\* DocumentChunk, models.py lines 40-49
ChunkRow(d, pos, emb, body) ==
    [document_id |-> d, position |-> pos, embedding |-> emb, content |-> body]

\* one vector of the index: id and the metadata upload_document attaches
VectorRow(id, d, u) == [id |-> id, document_id |-> d, user_id |-> u]

\* The store the handlers start from.  Documents 1 and 2 belong to user 1,
\* document 3 to `owner3`, document 4 to the last user.  Document 4 has four
\* chunks, of which only the last has an embedding, and no vector: every
\* upsert of its upload failed.  Document 1 has three chunks, the first without an
\* embedding.  The index holds one vector per embedded chunk, one vector whose
\* chunk row is gone ("9") and one vector under the id str(None).
SeedDocuments(owner3) ==
    (1 :> DocumentRow(1, <<"n">>, <<"a", "b">>, 1, 1)) @@
    (2 :> DocumentRow(1, <<"n">>, <<"b">>, 2, 2)) @@
    (3 :> DocumentRow(owner3, <<"a">>, <<"b">>, 3, 3)) @@
    (4 :> DocumentRow(NumUsers, <<"n">>, <<"d">>, 4, 4))

SeedChunks ==
    (1 :> ChunkRow(1, 0, FALSE, <<"b">>)) @@
    (2 :> ChunkRow(1, 1, TRUE, <<"b">>)) @@
    (3 :> ChunkRow(1, 2, TRUE, <<"b">>)) @@
    (4 :> ChunkRow(2, 0, TRUE, <<"b">>)) @@
    (5 :> ChunkRow(3, 0, TRUE, <<"b">>)) @@
    (6 :> ChunkRow(4, 0, FALSE, <<"b">>)) @@
    (7 :> ChunkRow(4, 1, FALSE, <<"b">>)) @@
    (8 :> ChunkRow(4, 2, FALSE, <<"b">>)) @@
    (10 :> ChunkRow(4, 3, TRUE, <<"b">>))

SeedVectors(owner3) ==
    {VectorRow(IdStr(2), 1, 1), VectorRow(IdStr(3), 1, 1),
     VectorRow(IdStr(4), 2, 1), VectorRow(IdStr(5), 3, owner3),
     VectorRow(IdStr(9), 2, 1), VectorRow("None", 2, 1)}

Queries == {<<"a">>, <<"b">>, <<"c">>}
\* the createdFrom a caller can put in the query string of a search, 0 for
\* none; search_documents declares no parameter for it and the framework
\* drops it
CreatedFroms == {0, 2}
SearchTypes == {"text", "semantic", "hybrid"}
Limits == 1 .. MaxLimit
Scores == {70, 90}
Dialects == {"lenient", "strict"}

Range(s) == {s[i] : i \in 1 .. Len(s)}

\* all sequences of n distinct elements of S
RECURSIVE Arrangements(_, _)
Arrangements(S, n) ==
    IF n = 0 THEN {<<>>}
    ELSE UNION {{Append(s, x) : x \in S \ Range(s)} : s \in Arrangements(S, n - 1)}

\* what `.limit(n).all()` can return for a query without ORDER BY whose
\* rows are S: any n of them (all when fewer) in any order
LimitAll(S, n) ==
    Arrangements(S, Min2(n, Cardinality(S)))

\* search.py lines 36-44: the rows of the lexical query before .limit()
TextMatches(u, q) ==
    {d \in DOMAIN documents :
        /\ documents[d].user_id = u
        /\ \/ Contains(documents[d].original_filename, q)
           \/ Contains(documents[d].content, q)}

\* vector_service.py lines 67-89: what search_similar can return; at most
\* top_k matches with distinct ids among the vectors whose metadata passes
\* the filter, best score first; empty on failure
NonIncreasing(s) == \A i \in 1 .. (Len(s) - 1) : s[i].score >= s[i + 1].score

HitsOfLength(u, n) ==
    LET ids == {v.id : v \in {w \in vindex : w.user_id = u}}
    IN  {h \in [1 .. n -> [id : ids, score : Scores]] :
            /\ \A i, j \in 1 .. n : i # j => h[i].id # h[j].id
            /\ NonIncreasing(h)}

search_similar(u, top_k) ==
    UNION {HitsOfLength(u, n) : n \in 0 .. Min2(top_k, MaxHits)}

-----------------------------------------------------------------------------
(* Ranking, search.py lines 106-108 and 166-168 *)

\* SearchResult, as far as ranking reads it
Match(d, score) == [document_id |-> d, relevance_score |-> score]

\* x placed after every element whose score is >= its own: one step of a
\* stable sort in descending order
RECURSIVE InsertByScore(_, _)
InsertByScore(s, x) ==
    IF s = <<>> THEN <<x>>
    ELSE IF Head(s).relevance_score >= x.relevance_score
         THEN <<Head(s)>> \o InsertByScore(Tail(s), x)
         ELSE <<x>> \o s

\* list.sort(key=relevance_score, reverse=True): stable, descending
RECURSIVE SortByScore(_)
SortByScore(s) ==
    IF s = <<>> THEN <<>>
    ELSE InsertByScore(SortByScore(SubSeq(s, 1, Len(s) - 1)), s[Len(s)])

\* s[:n]
Truncate(s, n) == SubSeq(s, 1, Min2(n, Len(s)))

\* mutant of Ranked: the list is cut to `limit` before it is sorted
Ranked_CutFirst(s, n) == SortByScore(Truncate(s, n))

\* lines 107-108, 167-168: sort, then cut to `limit`
Ranked(s, n) == Truncate(SortByScore(s), n)

-----------------------------------------------------------------------------
(* Resolving the hits of a vector query, search.py lines 69-84 and 145-162 *)

\* the chunk row `DocumentChunk.id == id` selects, 0 when there is none
ChunkOfHit(id) ==
    IF \E c \in DOMAIN dchunks : IdStr(c) = id
    THEN CHOOSE c \in DOMAIN dchunks : IdStr(c) = id
    ELSE 0

\* whether the chunk query for `id` raises: a strict dialect rejects a
\* non-numeric string compared with the integer key, and every statement
\* fails in a transaction a failed statement has aborted
QueryRaises(id, txs) ==
    \/ txs = "failed"
    \/ (dialect = "strict" /\ ~IsNumeric(id))

HasMatch(rs, d) == \E i \in 1 .. Len(rs) : rs[i].document_id = d

\* the document of the hit's chunk, 0 when `chunk and chunk.document` fails
DocumentOfHit(id) ==
    LET c == ChunkOfHit(id)
    IN  IF c # 0 /\ dchunks[c].document_id \in DOMAIN documents
        THEN dchunks[c].document_id
        ELSE 0

\* the documents the ids of a list of hits resolve to
AnswerDocs(hits) == {DocumentOfHit(hits[i].id) : i \in 1 .. Len(hits)} \ {0}

\* mutant of SearchHit: the `existing` test of lines 77-78 is dropped
SearchHit_NoDedup(acc, h) ==
    LET d == DocumentOfHit(h.id)
    IN  IF d = 0 THEN acc
        ELSE [acc EXCEPT !.results = Append(@, Match(d, h.score)),
                         !.hit_docs = @ \cup {d},
                         !.dup_docs = IF HasMatch(acc.results, d) THEN @ \cup {d} ELSE @]

\* search.py lines 70-84: one hit of the semantic pass
SearchHit(acc, h) ==
    LET d == DocumentOfHit(h.id)
    IN  IF d = 0 THEN acc
        ELSE IF HasMatch(acc.results, d)
             THEN [acc EXCEPT !.hit_docs = @ \cup {d}, !.dup_docs = @ \cup {d}]
             ELSE [acc EXCEPT !.results = Append(@, Match(d, h.score)),
                              !.hit_docs = @ \cup {d}]

\* search.py lines 69-86: the loop over the hits; an exception leaves it
RECURSIVE SearchHits(_, _)
SearchHits(acc, hits) ==
    IF hits = <<>> THEN acc
    ELSE IF QueryRaises(Head(hits).id, acc.tx)
         THEN [acc EXCEPT !.error = TRUE, !.tx = "failed"]
         ELSE SearchHits(SearchHit(acc, Head(hits)), Tail(hits))

\* mutant of SimilarHit: the `existing` test of lines 155-156 is dropped
SimilarHit_NoDedup(acc, h) ==
    LET d == DocumentOfHit(h.id)
    IN  IF d = 0 THEN acc
        ELSE IF d = req.document_id
             THEN [acc EXCEPT !.hit_docs = @ \cup {d}]
             ELSE [acc EXCEPT !.results = Append(@, Match(d, h.score)),
                              !.hit_docs = @ \cup {d},
                              !.dup_docs = IF HasMatch(acc.results, d) THEN @ \cup {d} ELSE @]

\* mutant of SimilarHit: the test against the source document is dropped
SimilarHit_NoSelfTest(acc, h) ==
    LET d == DocumentOfHit(h.id)
    IN  IF d = 0 THEN acc
        ELSE IF HasMatch(acc.results, d)
             THEN [acc EXCEPT !.hit_docs = @ \cup {d}, !.dup_docs = @ \cup {d}]
             ELSE [acc EXCEPT !.results = Append(@, Match(d, h.score)),
                              !.hit_docs = @ \cup {d}]

\* search.py lines 146-162: one hit of find_similar_documents
SimilarHit(acc, h) ==
    LET d == DocumentOfHit(h.id)
    IN  IF d = 0 THEN acc
        ELSE IF d = req.document_id
             THEN [acc EXCEPT !.hit_docs = @ \cup {d}]
        ELSE IF HasMatch(acc.results, d)
             THEN [acc EXCEPT !.hit_docs = @ \cup {d}, !.dup_docs = @ \cup {d}]
             ELSE [acc EXCEPT !.results = Append(@, Match(d, h.score)),
                              !.hit_docs = @ \cup {d}]

\* search.py lines 145-164: the loop over the hits of one source chunk
RECURSIVE SimilarHits(_, _)
SimilarHits(acc, hits) ==
    IF hits = <<>> THEN acc
    ELSE IF QueryRaises(Head(hits).id, acc.tx)
         THEN [acc EXCEPT !.error = TRUE, !.tx = "failed"]
         ELSE SimilarHits(SimilarHit(acc, Head(hits)), Tail(hits))

\* the accumulator the two loops work on
Accumulator ==
    [results |-> results, hit_docs |-> hit_docs, dup_docs |-> dup_docs,
     error |-> FALSE, tx |-> tx]

-----------------------------------------------------------------------------
(* search_documents, search.py lines 15-108 *)

NoRequest ==
    [op |-> "none", user |-> 0, q |-> <<>>, limit |-> 0, search_type |-> "none",
     document_id |-> 0, created_from |-> 0, session_id |-> 0]

NoRow == [state |-> "none", user_id |-> 0, results_count |-> 0]

\* lines 46-56: one match per row of the lexical query, with the static score
TextPass(rows) == [i \in 1 .. Len(rows) |-> Match(rows[i], TextScore)]

\* the ways the two commits of the logs can go: both succeed, the commit of
\* line 90 fails, or the commit of line 104 fails
CommitFaults == {"none", "query_log", "activity_log"}

\* lines 88-108: the query log and the activity log are written and
\* committed, the list is sorted, cut and returned.  Neither commit is inside
\* a try block: the commit of line 90 raises in a transaction a failed
\* statement has aborted or when the store fails, the commit of line 104
\* raises when the store fails, and then nothing is returned.
SearchReturn(rs, txs, u, limit) ==
    \E f \in (IF txs = "failed" THEN {"none"} ELSE CommitFaults) :
        /\ log_fault' = f
        /\ IF txs = "failed" \/ f = "query_log"
           THEN /\ outcome' = "raised"
                /\ response' = <<>>
                /\ UNCHANGED <<search_query, activity>>
           ELSE IF f = "activity_log"
           THEN /\ outcome' = "raised"
                /\ response' = <<>>
                /\ search_query' = [state |-> "committed", user_id |-> u,
                                    results_count |-> Len(rs)]
                /\ UNCHANGED activity
           ELSE /\ outcome' = "returned"
                /\ response' = Ranked(rs, limit)
                /\ search_query' = [state |-> "committed", user_id |-> u,
                                    results_count |-> Len(rs)]
                /\ activity' = [state |-> "committed", user_id |-> u,
                                results_count |-> Len(rs)]
        /\ pc' = "done"

\* mutant of TextRows: the mode test of line 33 is dropped, the lexical query
\* runs in every mode
TextRows_AnyMode(u, q, limit, search_type) ==
    LimitAll(TextMatches(u, q), limit)

\* lines 34-44: what the lexical query can return, nothing in mode semantic
TextRows(u, q, limit, search_type) ==
    IF search_type \in {"text", "hybrid"}
    THEN LimitAll(TextMatches(u, q), limit)
    ELSE {<<>>}

\* lines 25-56, up to the await of line 61; in mode text through to the return
SearchLexical(u, q, limit, search_type) ==
    /\ pc = "idle"
    /\ \E rows \in TextRows(u, q, limit, search_type), from \in CreatedFroms :
           /\ req' = [op |-> "search", user |-> u, q |-> q, limit |-> limit,
                      search_type |-> search_type, document_id |-> 0,
                      created_from |-> from, session_id |-> 0]
           /\ text_results' = rows
           /\ results' = TextPass(rows)
           /\ tx' = "active"
           /\ IF search_type \in {"semantic", "hybrid"}
              THEN /\ pc' = "search_embed"
                   /\ search_query' = [state |-> "pending", user_id |-> u, results_count |-> 0]
                   /\ UNCHANGED <<response, outcome, activity, log_fault>>
              ELSE SearchReturn(TextPass(rows), "active", u, limit)
           /\ UNCHANGED <<documents, dchunks, vindex, dialect, query_embedding, src_rows,
                          src_chunks, sem_error, hit_docs, dup_docs, embed_calls,
                          vector_queries, answer_docs>>
           /\ UNCHANGED <<chunkVars, snippetVars, ingestVars>>

\* mutant of EmbeddingUsable: the `if query_embedding:` test is dropped
EmbeddingUsable_Always(e) == TRUE

\* line 62: `if query_embedding:`
EmbeddingUsable(e) == e = "vector"

\* line 61: create_embedding returns a vector, or None on any failure
\* (vector_service.py lines 44-55); without a vector the handler goes on to
\* the return
SearchEmbed(e) ==
    /\ pc = "search_embed"
    /\ query_embedding' = e
    /\ embed_calls' = embed_calls + 1
    /\ IF EmbeddingUsable(e)
       THEN /\ pc' = "search_vector"
            /\ UNCHANGED <<response, outcome, search_query, activity, log_fault>>
       ELSE SearchReturn(results, tx, req.user, req.limit)
    /\ UNCHANGED <<documents, dchunks, vindex, dialect, req, text_results, results,
                   src_rows, src_chunks, tx, sem_error, hit_docs, dup_docs,
                   vector_queries, answer_docs>>
    /\ UNCHANGED <<chunkVars, snippetVars, ingestVars>>

\* lines 63-108: the vector query answers with `hits`, the hits are resolved,
\* an exception is caught and printed (lines 85-86), and the handler returns
SearchSemantic ==
    /\ pc = "search_vector"
    /\ \E hits \in search_similar(req.user, req.limit) :
           /\ vector_queries' = vector_queries + 1
           /\ answer_docs' = answer_docs \cup AnswerDocs(hits)
           /\ LET acc == SearchHits(Accumulator, hits)
              IN  /\ results' = acc.results
                  /\ hit_docs' = acc.hit_docs
                  /\ dup_docs' = acc.dup_docs
                  /\ sem_error' = acc.error
                  /\ tx' = acc.tx
                  /\ SearchReturn(acc.results, acc.tx, req.user, req.limit)
           /\ UNCHANGED <<documents, dchunks, vindex, dialect, req, text_results,
                          query_embedding, src_rows, src_chunks, embed_calls>>
           /\ UNCHANGED <<chunkVars, snippetVars, ingestVars>>

-----------------------------------------------------------------------------
(* find_similar_documents, search.py lines 110-168 *)

ChunksOf(d) == {c \in DOMAIN dchunks : dchunks[c].document_id = d}

\* lines 135-136: the chunks before the next one with an embedding are passed
\* over without a query
RECURSIVE SkipUnembedded(_)
SkipUnembedded(rows) ==
    IF rows # <<>> /\ ~dchunks[Head(rows)].embedding
    THEN SkipUnembedded(Tail(rows))
    ELSE rows

\* lines 166-168: sort, cut, return
SimilarReturn(rs, limit) ==
    /\ outcome' = "returned"
    /\ response' = Ranked(rs, limit)
    /\ pc' = "done"

\* lines 120-131: what the two queries can return; no chunk rows are read
\* when the document is not the caller's
SourceRows(u, d) ==
    IF d \notin DOMAIN documents \/ documents[d].user_id # u
    THEN {<<>>}
    ELSE LimitAll(ChunksOf(d), SimilarChunkLimit)

\* lines 119-136: the ownership check, the first chunks of the document, and
\* the loop up to the first await
SimilarLookup(u, d, limit) ==
    /\ pc = "idle"
    /\ req' = [op |-> "similar", user |-> u, q |-> <<>>, limit |-> limit,
               search_type |-> "none", document_id |-> d, created_from |-> 0,
               session_id |-> 0]
    /\ \E rows \in SourceRows(u, d) :
           /\ IF d \notin DOMAIN documents \/ documents[d].user_id # u
              THEN /\ outcome' = "not_found"
                   /\ pc' = "done"
                   /\ UNCHANGED <<response, src_rows, src_chunks, tx>>
              ELSE /\ src_rows' = rows
                   /\ src_chunks' = SkipUnembedded(rows)
                   /\ tx' = "active"
                   /\ IF SkipUnembedded(rows) = <<>>
                      THEN SimilarReturn(<<>>, limit)
                      ELSE /\ pc' = "similar_chunk"
                           /\ UNCHANGED <<response, outcome>>
           /\ UNCHANGED <<documents, dchunks, vindex, dialect, text_results, results,
                          query_embedding, search_query, activity, sem_error, hit_docs,
                          dup_docs, embed_calls, vector_queries, answer_docs, log_fault>>
           /\ UNCHANGED <<chunkVars, snippetVars, ingestVars>>

\* lines 137-164 for the source chunk at the head of src_chunks: the vector
\* query answers with `hits`, the hits are resolved, an exception is caught
\* and printed; after the last source chunk the handler returns
SimilarChunk ==
    /\ pc = "similar_chunk"
    /\ \E hits \in search_similar(req.user, req.limit * TopKFactor) :
           /\ vector_queries' = vector_queries + 1
           /\ answer_docs' = answer_docs \cup AnswerDocs(hits)
           /\ src_chunks' = SkipUnembedded(Tail(src_chunks))
           /\ LET acc == SimilarHits(Accumulator, hits)
              IN  /\ results' = acc.results
                  /\ hit_docs' = acc.hit_docs
                  /\ dup_docs' = acc.dup_docs
                  /\ sem_error' = (sem_error \/ acc.error)
                  /\ tx' = acc.tx
                  /\ IF SkipUnembedded(Tail(src_chunks)) = <<>>
                     THEN SimilarReturn(acc.results, req.limit)
                     ELSE UNCHANGED <<pc, response, outcome>>
           /\ UNCHANGED <<documents, dchunks, vindex, dialect, req, text_results,
                          query_embedding, src_rows, search_query, activity, embed_calls,
                          log_fault>>
           /\ UNCHANGED <<chunkVars, snippetVars, ingestVars>>

-----------------------------------------------------------------------------
(* upload_document, documents.py lines 21-127 *)

\* the request record of operation op by user u
Request(op, u) == [NoRequest EXCEPT !.op = op, !.user = u]

\* the id the store gives the next row of a table whose ids are `ids` and
\* whose sequence stands at `seq`: a strict store (PostgreSQL) draws from the
\* sequence and never reuses an id, a lenient one (SQLite rowid) takes the
\* highest id in the table plus one
NewId(ids, seq) ==
    IF dialect = "strict" THEN seq + 1 ELSE SetMax(ids \cup {0}) + 1

\* the row `d` of table t is deleted
Without(t, ids) == [x \in (DOMAIN t) \ ids |-> t[x]]

\* file_processor.py lines 181-208: the while loop, from the window at `st`
RECURSIVE ChunkLoop(_, _, _, _, _)
ChunkLoop(t, st, acc, cs, ov) ==
    IF st >= Len(t) THEN acc
    ELSE LET end   == ChunkEnd(t, st, cs)
             chunk == Strip(Slice(t, st, end))
             acc2  == IF chunk # <<>> THEN Append(acc, chunk) ELSE acc
         IN  IF end >= Len(t) THEN acc2
             ELSE ChunkLoop(t, NextStart(st, end, ov), acc2, cs, ov)

\* file_processor.py lines 167-208: chunk_text as upload_document calls it
chunk_text(t, cs, ov) ==
    LET stripped == Strip(t)
    IN  IF stripped = <<>> THEN <<>>
        ELSE IF Len(stripped) <= cs THEN <<stripped>>
        ELSE ChunkLoop(stripped, 0, <<>>, cs, ov)

\* the texts extract_text_content hands to upload_document: empty, blank,
\* shorter than a chunk, and one that chunk_text cuts in two after a period
UploadTexts ==
    {<<>>, <<" ">>, <<"a", "b">>,
     Fill(DefaultChunkSize - BreakWindow + 50) \o <<".">> \o Fill(BreakWindow + 50)}

\* mutant of ChunkPosition: positions are counted from 1
ChunkPosition_FromOne(i) == i + 1

\* line 82: position=i, the index enumerate() gives the chunk
ChunkPosition(i) == i

\* mutant of AddChunk: a chunk whose embedding failed is not stored
AddChunk_EmbeddedOnly(rows, chunk, e) ==
    IF e = "vector"
    THEN Append(rows, [content |-> chunk, embedding |-> TRUE,
                       position |-> ChunkPosition(Len(up_embedded))])
    ELSE rows

\* lines 78-84: the chunk row is added to the session, with the embedding
\* when create_embedding gave one
AddChunk(rows, chunk, e) ==
    Append(rows, [content |-> chunk, embedding |-> (e = "vector"),
                  position |-> ChunkPosition(Len(up_embedded))])

\* line 89: str(db_chunk.id) of a row that was added to the session but not
\* flushed; its id is still None
PendingId == "None"

\* vector_service.py line 61: index.upsert replaces the vector of the same id
Upsert(index, v) == {w \in index : w.id # v.id} \cup {v}

\* line 111: the commit inserts the pending chunk rows in the order they were
\* added and gives them their ids
CommittedChunks(rows) ==
    LET base == NewId(DOMAIN dchunks, chunk_seq) - 1
    IN  [c \in (base + 1) .. (base + Len(rows)) |->
            ChunkRow(up_doc, rows[c - base].position, rows[c - base].embedding,
                     rows[c - base].content)]

\* lines 111-127: commit of the chunks, activity log, return
UploadCommit(rows) ==
    /\ dchunks' = dchunks @@ CommittedChunks(rows)
    /\ chunk_seq' = chunk_seq + Len(rows)
    /\ outcome' = "returned"
    /\ pc' = "done"

\* lines 27-72: the file is read, validated and saved, the document row is
\* committed, the text is chunked.  Without chunks the handler goes on to the
\* activity log, where line 121 reads `chunks`: the name is unbound when the
\* text is blank but not empty, and the handler raises.
UploadStart(u, valid, t) ==
    /\ pc = "idle"
    /\ uploads < MaxUploads
    /\ uploads' = uploads + 1
    /\ req' = Request("upload", u)
    /\ IF ~valid
       THEN /\ outcome' = "rejected"
            /\ pc' = "done"
            /\ UNCHANGED <<documents, files, file_seq, doc_seq, up_doc, up_chunks>>
       ELSE LET d == NewId(DOMAIN documents, doc_seq)
                path == file_seq + 1
            IN  /\ files' = files \cup {path}
                /\ file_seq' = path
                /\ documents' = documents @@ (d :> DocumentRow(u, <<"n">>, t, uploads + 1, path))
                /\ doc_seq' = doc_seq + 1
                /\ up_doc' = d
                /\ up_chunks' = IF Strip(t) # <<>>
                                THEN chunk_text(t, DefaultChunkSize, DefaultOverlap)
                                ELSE <<>>
                /\ IF Strip(t) # <<>>
                   THEN /\ pc' = "upload_embed"
                        /\ UNCHANGED outcome
                   ELSE /\ outcome' = IF t = <<>> THEN "returned" ELSE "raised"
                        /\ pc' = "done"
    /\ UNCHANGED <<dchunks, vindex, dialect, chunk_seq, sessions, messages, session_seq,
                   sends, up_embedded, pending, del_ids>>
    /\ UNCHANGED <<text_results, results, response, query_embedding, src_rows, src_chunks,
                   search_query, activity, tx, sem_error, hit_docs, dup_docs, embed_calls,
                   vector_queries, answer_docs, log_fault>>
    /\ UNCHANGED <<chunkVars, snippetVars>>

\* the handler's locals the loop over the chunks leaves alone
UploadFrame ==
    /\ UNCHANGED <<documents, dialect, files, file_seq, doc_seq, sessions, messages,
                   session_seq, uploads, sends, up_doc, up_chunks, del_ids>>
    /\ UNCHANGED <<req, text_results, results, response, query_embedding, src_rows,
                   src_chunks, search_query, activity, tx, sem_error, hit_docs, dup_docs,
                   embed_calls, vector_queries, answer_docs, log_fault>>
    /\ UNCHANGED <<chunkVars, snippetVars>>

\* lines 75-87 for the next chunk: create_embedding answers e, the chunk row
\* is added; without a vector the loop goes on, after the last chunk to the
\* commit
UploadEmbed(e) ==
    /\ pc = "upload_embed"
    /\ LET rows == AddChunk(pending, up_chunks[Len(up_embedded) + 1], e)
       IN  /\ pending' = rows
           /\ up_embedded' = Append(up_embedded, e = "vector")
           /\ IF e = "vector"
              THEN /\ pc' = "upload_upsert"
                   /\ UNCHANGED <<dchunks, chunk_seq, outcome>>
              ELSE IF Len(up_embedded) + 1 < Len(up_chunks)
              THEN UNCHANGED <<pc, dchunks, chunk_seq, outcome>>
              ELSE UploadCommit(rows)
    /\ UNCHANGED vindex
    /\ UploadFrame

\* lines 88-98: store_vectors upserts the vector, or fails and returns False
\* (vector_service.py lines 57-65); then the loop goes on
UploadUpsert(ok) ==
    /\ pc = "upload_upsert"
    /\ vindex' = IF ok THEN Upsert(vindex, VectorRow(PendingId, up_doc, req.user))
                 ELSE vindex
    /\ IF Len(up_embedded) < Len(up_chunks)
       THEN /\ pc' = "upload_embed"
            /\ UNCHANGED <<dchunks, chunk_seq, outcome>>
       ELSE UploadCommit(pending)
    /\ UNCHANGED <<pending, up_embedded>>
    /\ UploadFrame

-----------------------------------------------------------------------------
(* get_document and delete_document, documents.py lines 146-209 *)

\* mutant of Owned: the filter on Document.user_id is dropped
Owned_AnyUser(u, d) == d \in DOMAIN documents

\* lines 152-155, 168-171: the row with this id that belongs to the caller
Owned(u, d) == d \in DOMAIN documents /\ documents[d].user_id = u

\* what a finished handler leaves of the other handlers' locals
OtherLocals ==
    UNCHANGED <<text_results, results, response, query_embedding, src_rows, src_chunks,
                search_query, activity, tx, sem_error, hit_docs, dup_docs, embed_calls,
                vector_queries, answer_docs, log_fault, up_doc, up_chunks, up_embedded,
                pending>>

\* lines 147-160
GetDocument(u, d) ==
    /\ pc = "idle"
    /\ req' = [Request("get", u) EXCEPT !.document_id = d]
    /\ outcome' = IF Owned(u, d) THEN "returned" ELSE "not_found"
    /\ pc' = "done"
    /\ UNCHANGED <<storeVars, files, sessions, messages, doc_seq, chunk_seq, file_seq,
                   session_seq, uploads, sends, del_ids>>
    /\ OtherLocals
    /\ UNCHANGED <<chunkVars, snippetVars>>

\* mutant of DeleteCommit: the chunk rows of the document are left in place
DeleteCommit_KeepChunks(d) ==
    /\ dchunks' = dchunks
    /\ documents' = Without(documents, {d})
    /\ outcome' = "returned"
    /\ pc' = "done"

\* lines 192-209: the chunk rows and the document row are deleted and
\* committed, the activity is logged
DeleteCommit(d) ==
    /\ dchunks' = Without(dchunks, ChunksOf(d))
    /\ documents' = Without(documents, {d})
    /\ outcome' = "returned"
    /\ pc' = "done"

\* lines 168-188: the ownership check, the removal of the file (which can
\* fail, lines 177-181), the ids of the chunks; with no chunk the handler
\* goes on to the commit
DeleteLookup(u, d) ==
    /\ pc = "idle"
    /\ req' = [Request("delete", u) EXCEPT !.document_id = d]
    /\ IF ~Owned(u, d)
       THEN /\ outcome' = "not_found"
            /\ pc' = "done"
            /\ UNCHANGED <<documents, dchunks, files, del_ids>>
       ELSE /\ \E removed \in BOOLEAN :
                  files' = IF removed THEN files \ {documents[d].file_path} ELSE files
            /\ del_ids' = {IdStr(c) : c \in ChunksOf(d)}
            /\ IF ChunksOf(d) = {}
               THEN DeleteCommit(d)
               ELSE /\ pc' = "delete_vectors"
                    /\ UNCHANGED <<documents, dchunks, outcome>>
    /\ UNCHANGED <<vindex, dialect, sessions, messages, doc_seq, chunk_seq, file_seq,
                   session_seq, uploads, sends>>
    /\ OtherLocals
    /\ UNCHANGED <<chunkVars, snippetVars>>

\* line 188: delete_vectors removes the vectors of these ids, or fails and
\* returns False (vector_service.py lines 91-98); then the rows are deleted
DeleteVectors(ok) ==
    /\ pc = "delete_vectors"
    /\ vindex' = IF ok THEN {v \in vindex : v.id \notin del_ids} ELSE vindex
    /\ DeleteCommit(req.document_id)
    /\ UNCHANGED <<dialect, req, files, sessions, messages, doc_seq, chunk_seq, file_seq,
                   session_seq, uploads, sends, del_ids>>
    /\ OtherLocals
    /\ UNCHANGED <<chunkVars, snippetVars>>

-----------------------------------------------------------------------------
(* The chat sessions, chat.py lines 23-257 *)

SessionRow(u, title) == [user_id |-> u, title |-> title]

MessageRow(role, kind, sources) == [role |-> role, kind |-> kind, sources |-> sources]

\* ChatSessionCreate.title and the title of a rename
NewTitle == "t"
Renamed == "u"

\* lines 70-73, 93-96, 220-223, 245-248: the session with this id that
\* belongs to the caller
OwnedSession(u, sid) == sid \in DOMAIN sessions /\ sessions[sid].user_id = u

SessionIds == (DOMAIN sessions) \cup {7}

\* what the chat handlers leave alone
ChatFrame ==
    /\ UNCHANGED <<storeVars, files, doc_seq, chunk_seq, file_seq, uploads, del_ids>>
    /\ OtherLocals
    /\ UNCHANGED <<chunkVars, snippetVars>>

\* lines 24-48
ChatCreate(u) ==
    /\ pc = "idle"
    /\ session_seq < MaxSessions
    /\ LET sid == NewId(DOMAIN sessions, session_seq)
       IN  /\ req' = [Request("create_session", u) EXCEPT !.session_id = sid]
           /\ sessions' = sessions @@ (sid :> SessionRow(u, NewTitle))
           /\ messages' = messages @@ (sid :> <<>>)
    /\ session_seq' = session_seq + 1
    /\ outcome' = "returned"
    /\ pc' = "done"
    /\ UNCHANGED sends
    /\ ChatFrame

\* lines 63-82
ChatHistory(u, sid) ==
    /\ pc = "idle"
    /\ req' = [Request("history", u) EXCEPT !.session_id = sid]
    /\ outcome' = IF OwnedSession(u, sid) THEN "returned" ELSE "not_found"
    /\ pc' = "done"
    /\ UNCHANGED <<sessions, messages, session_seq, sends>>
    /\ ChatFrame

\* the entries of source_documents for the hits: an id int() rejects is
\* passed over (lines 129-132), as is a hit without a chunk row (line 135);
\* line 139 compares the document with the dicts of the list, so it never
\* finds it there
RECURSIVE ChatSources(_)
ChatSources(hits) ==
    IF hits = <<>> THEN <<>>
    ELSE LET c == IF IsNumeric(Head(hits).id) THEN ChunkOfHit(Head(hits).id) ELSE 0
         IN  IF c = 0 THEN ChatSources(Tail(hits))
             ELSE <<Match(dchunks[c].document_id, Head(hits).score)>> \o ChatSources(Tail(hits))

\* the ways the handler can go once the session is found: the commit of the
\* user message (line 108, outside the try block) raises; the try block of
\* lines 110-193 returns; a call in it raises before the assistant message is
\* committed; the commit of the activity log (line 188) raises after it; the
\* commit of the error message (line 204, in the except block) raises
ChatPaths == {"rejected", "answered", "failed", "failed_after_answer", "error_lost"}

\* lines 85-210
ChatSend(u, sid) ==
    /\ pc = "idle"
    /\ sends < MaxSends
    /\ sends' = sends + 1
    /\ req' = [Request("send", u) EXCEPT !.session_id = sid]
    /\ pc' = "done"
    /\ IF ~OwnedSession(u, sid)
       THEN /\ outcome' = "not_found"
            /\ UNCHANGED messages
       ELSE \E e \in {"null", "vector"}, path \in ChatPaths :
            \E hits \in (IF e = "vector" THEN search_similar(u, ChatTopK) ELSE {<<>>}) :
               LET asked  == MessageRow("user", "text", <<>>)
                   answer == MessageRow("assistant", "reply", ChatSources(hits))
                   sorry  == MessageRow("assistant", "error", <<>>)
                   added  == IF path = "rejected" THEN <<>>
                             ELSE IF path = "answered" THEN <<asked, answer>>
                             ELSE IF path = "failed" THEN <<asked, sorry>>
                             ELSE IF path = "failed_after_answer"
                                  THEN <<asked, answer, sorry>>
                             ELSE <<asked>>
               IN  /\ messages' = [messages EXCEPT ![sid] = @ \o added]
                   /\ outcome' = IF path \in {"rejected", "error_lost"}
                                 THEN "raised" ELSE "returned"
    /\ UNCHANGED <<sessions, session_seq>>
    /\ ChatFrame

\* lines 213-235
ChatDelete(u, sid) ==
    /\ pc = "idle"
    /\ req' = [Request("delete_session", u) EXCEPT !.session_id = sid]
    /\ pc' = "done"
    /\ IF ~OwnedSession(u, sid)
       THEN /\ outcome' = "not_found"
            /\ UNCHANGED <<sessions, messages>>
       ELSE /\ outcome' = "returned"
            /\ sessions' = Without(sessions, {sid})
            /\ messages' = Without(messages, {sid})
    /\ UNCHANGED <<session_seq, sends>>
    /\ ChatFrame

\* lines 238-257
ChatRename(u, sid) ==
    /\ pc = "idle"
    /\ req' = [Request("rename", u) EXCEPT !.session_id = sid]
    /\ pc' = "done"
    /\ IF ~OwnedSession(u, sid)
       THEN /\ outcome' = "not_found"
            /\ UNCHANGED sessions
       ELSE /\ outcome' = "returned"
            /\ sessions' = [sessions EXCEPT ![sid].title = Renamed]
    /\ UNCHANGED <<messages, session_seq, sends>>
    /\ ChatFrame

-----------------------------------------------------------------------------
(* _extract_snippet, search.py lines 170-196 *)

Ellipsis == <<".", ".", ".">>

\* str.lower() on one character of the snippet alphabet
LowerChar(c) == IF c = "A" THEN "a" ELSE IF c = "B" THEN "b" ELSE c

\* str.lower()
Lower(s) == [i \in 1 .. Len(s) |-> LowerChar(s[i])]

\* str.find(sub): the lowest 0-based index where sub occurs in s, or -1
Find(s, sub) ==
    LET at == {i \in 0 .. (Len(s) - Len(sub)) : SubSeq(s, i + 1, i + Len(sub)) = sub}
    IN  IF at = {} THEN -1 ELSE CHOOSE i \in at : \A j \in at : i <= j

\* lines 173 and 182: the beginning of the content, marked when it was cut
SnippetHead(c, n) == IF Len(c) > n THEN Slice(c, 0, n) \o Ellipsis ELSE c

\* mutant of extract_snippet: the query is looked up without lowering either
\* string
extract_snippet_CaseSensitive(c, q, n) ==
    IF c = <<>> \/ q = <<>>
    THEN SnippetHead(c, n)
    ELSE LET pos == Find(c, q)
         IN  IF pos = -1
             THEN SnippetHead(c, n)
             ELSE LET st   == Max2(0, pos - (n \div 2))
                      end  == st + n
                      body == Slice(c, st, end)
                      left == IF st > 0 THEN Ellipsis \o body ELSE body
                  IN  IF end < Len(c) THEN left \o Ellipsis ELSE left

\* lines 170-196
extract_snippet(c, q, n) ==
    IF c = <<>> \/ q = <<>>
    THEN SnippetHead(c, n)
    ELSE LET pos == Find(Lower(c), Lower(q))
         IN  IF pos = -1
             THEN SnippetHead(c, n)
             ELSE LET st   == Max2(0, pos - (n \div 2))
                      end  == st + n
                      body == Slice(c, st, end)
                      left == IF st > 0 THEN Ellipsis \o body ELSE body
                  IN  IF end < Len(c) THEN left \o Ellipsis ELSE left

\* one call of _extract_snippet
SnippetCall ==
    /\ spc = "call"
    /\ snippet' = extract_snippet(sn_content, sn_query, sn_length)
    /\ spc' = "done"
    /\ UNCHANGED <<sn_content, sn_query, sn_length>>
    /\ UNCHANGED <<chunkVars, storeVars, requestVars, ingestVars>>

SnippetIdle ==
    /\ sn_content = <<>>
    /\ sn_query = <<>>
    /\ sn_length = 0
    /\ snippet = <<>>
    /\ spc = "idle"

-----------------------------------------------------------------------------
(* The response is sent and the next request is taken *)

RequestIdle ==
    /\ pc = "idle"
    /\ req = NoRequest
    /\ text_results = <<>>
    /\ results = <<>>
    /\ response = <<>>
    /\ outcome = "none"
    /\ query_embedding = "unset"
    /\ src_rows = <<>>
    /\ src_chunks = <<>>
    /\ search_query = NoRow
    /\ activity = NoRow
    /\ tx = "none"
    /\ sem_error = FALSE
    /\ hit_docs = {}
    /\ dup_docs = {}
    /\ embed_calls = 0
    /\ vector_queries = 0
    /\ answer_docs = {}
    /\ log_fault = "none"
    /\ up_doc = 0
    /\ up_chunks = <<>>
    /\ up_embedded = <<>>
    /\ pending = <<>>
    /\ del_ids = {}

Respond ==
    /\ pc = "done"
    /\ pc' = "idle"
    /\ req' = NoRequest
    /\ text_results' = <<>>
    /\ results' = <<>>
    /\ response' = <<>>
    /\ outcome' = "none"
    /\ query_embedding' = "unset"
    /\ src_rows' = <<>>
    /\ src_chunks' = <<>>
    /\ search_query' = NoRow
    /\ activity' = NoRow
    /\ tx' = "none"
    /\ sem_error' = FALSE
    /\ hit_docs' = {}
    /\ dup_docs' = {}
    /\ embed_calls' = 0
    /\ vector_queries' = 0
    /\ answer_docs' = {}
    /\ log_fault' = "none"
    /\ up_doc' = 0
    /\ up_chunks' = <<>>
    /\ up_embedded' = <<>>
    /\ pending' = <<>>
    /\ del_ids' = {}
    /\ UNCHANGED <<documents, dchunks, vindex, dialect>>
    /\ UNCHANGED <<files, sessions, messages, doc_seq, chunk_seq, file_seq, session_seq,
                   uploads, sends>>
    /\ UNCHANGED <<chunkVars, snippetVars>>

-----------------------------------------------------------------------------
(* The inputs chunk_text is run on *)

RECURSIVE SeqsUpTo(_, _)
SeqsUpTo(S, n) ==
    IF n = 0 THEN {<<>>}
    ELSE LET shorter == SeqsUpTo(S, n - 1)
         IN  shorter \cup {Append(s, c) : s \in {x \in shorter : Len(x) = n - 1}, c \in S}

ShortTexts == SeqsUpTo(Alphabet, MaxLen)

\* Texts longer than BreakWindow: a head at index 0, a middle at index
\* SpaceWindow and a tail at index BreakWindow - 1, padded with letters, so
\* that terminators and spaces fall on both sides of the two thresholds.
Heads   == {<<>>, <<".">>, <<"a", ".">>, <<" ", "a">>}
Middles == {<<"a">>, <<" ">>, <<"a", " ">>, <<".">>}
Tails   == {s \in SeqsUpTo({"a", " ", "."}, 3) : Len(s) >= 2}

LongText(h, m, t) ==
    h \o Fill(SpaceWindow - Len(h)) \o m \o Fill(BreakWindow - 1 - SpaceWindow - Len(m)) \o t

LongTexts == {LongText(h, m, t) : h \in Heads, m \in Middles, t \in Tails}

SmallSizes == 0 .. MaxChunk
LargeSizes == {BreakWindow, BreakWindow + 1}
Overlaps(cs) == (-1 .. MaxOverlap) \cup {cs}

ChunkIdle ==
    /\ text = <<>>
    /\ chunk_size = 0
    /\ overlap = 0
    /\ start = 0
    /\ chunks = <<>>
    /\ windows = <<>>
    /\ raw = <<>>
    /\ iters = 0
    /\ cpc = "idle"

\* no chat session yet, no upload or message taken
NoChat ==
    /\ sessions = <<>>
    /\ messages = <<>>
    /\ session_seq = 0
    /\ uploads = 0
    /\ sends = 0

SeedStore(owner3) ==
    /\ documents = SeedDocuments(owner3)
    /\ dchunks = SeedChunks
    /\ vindex = SeedVectors(owner3)
    /\ files = {documents[d].file_path : d \in DOMAIN documents}
    /\ doc_seq = SetMax(DOMAIN documents)
    /\ chunk_seq = SetMax(DOMAIN dchunks)
    /\ file_seq = SetMax(files)
    /\ NoChat

\* the store of a fresh deployment: empty tables, empty index, empty upload
\* directory
EmptyStore ==
    /\ documents = <<>>
    /\ dchunks = <<>>
    /\ vindex = {}
    /\ files = {}
    /\ doc_seq = 0
    /\ chunk_seq = 0
    /\ file_seq = 0
    /\ NoChat

InitChunk ==
    /\ \/ (text \in ShortTexts /\ chunk_size \in SmallSizes)
       \/ (text \in LongTexts /\ chunk_size \in LargeSizes)
    /\ overlap \in Overlaps(chunk_size)
    /\ start = 0
    /\ chunks = <<>>
    /\ windows = <<>>
    /\ raw = <<>>
    /\ iters = 0
    /\ cpc = "entry"
    /\ SeedStore(1)
    /\ dialect = "lenient"
    /\ RequestIdle
    /\ SnippetIdle

NextChunk == ChunkEntry \/ ChunkIter \/ ChunkExit

SpecChunk == InitChunk /\ [][NextChunk]_vars

-----------------------------------------------------------------------------
(* The retrieval handlers over the seeded store *)

Init ==
    /\ ChunkIdle
    /\ \E owner3 \in Users : SeedStore(owner3)
    /\ dialect \in Dialects
    /\ RequestIdle
    /\ SnippetIdle

DocumentIds == (DOMAIN documents) \cup {7}

Next ==
    \/ \E u \in Users, q \in Queries, limit \in Limits, search_type \in SearchTypes :
          SearchLexical(u, q, limit, search_type)
    \/ \E e \in {"null", "vector"} : SearchEmbed(e)
    \/ SearchSemantic
    \/ \E u \in Users, d \in DocumentIds, limit \in Limits : SimilarLookup(u, d, limit)
    \/ SimilarChunk
    \/ Respond

Spec == Init /\ [][Next]_vars

-----------------------------------------------------------------------------
(* Uploads, deletions, lookups and chat from a fresh deployment *)

InitStore ==
    /\ ChunkIdle
    /\ EmptyStore
    /\ dialect \in Dialects
    /\ RequestIdle
    /\ SnippetIdle

NextStore ==
    \/ \E u \in Users, valid \in BOOLEAN, t \in UploadTexts : UploadStart(u, valid, t)
    \/ \E e \in {"null", "vector"} : UploadEmbed(e)
    \/ \E ok \in BOOLEAN : UploadUpsert(ok)
    \/ \E u \in Users, d \in DocumentIds : GetDocument(u, d)
    \/ \E u \in Users, d \in DocumentIds : DeleteLookup(u, d)
    \/ \E ok \in BOOLEAN : DeleteVectors(ok)
    \/ \E u \in Users : ChatCreate(u)
    \/ \E u \in Users, sid \in SessionIds : ChatHistory(u, sid)
    \/ \E u \in Users, sid \in SessionIds : ChatSend(u, sid)
    \/ \E u \in Users, sid \in SessionIds : ChatDelete(u, sid)
    \/ \E u \in Users, sid \in SessionIds : ChatRename(u, sid)
    \/ \E u \in Users, d \in DocumentIds, limit \in Limits : SimilarLookup(u, d, limit)
    \/ SimilarChunk
    \/ Respond

SpecStore == InitStore /\ [][NextStore]_vars

-----------------------------------------------------------------------------
(* Uploads, deletions and searches of several users over one store *)

\* The store the users share at the start: document 1 with two chunks belongs
\* to user 1, document 2 with one chunk to the last user; every chunk has an
\* embedding and the index holds one vector per chunk, under the chunk's id.
SharedDocuments ==
    (1 :> DocumentRow(1, <<"n">>, <<"a", "b">>, 1, 1)) @@
    (2 :> DocumentRow(NumUsers, <<"n">>, <<"b">>, 2, 2))

SharedChunks ==
    (1 :> ChunkRow(1, 0, TRUE, <<"b">>)) @@
    (2 :> ChunkRow(1, 1, TRUE, <<"b">>)) @@
    (3 :> ChunkRow(2, 0, TRUE, <<"b">>))

SharedVectors ==
    {VectorRow(IdStr(1), 1, 1), VectorRow(IdStr(2), 1, 1),
     VectorRow(IdStr(3), 2, NumUsers)}

SharedStore ==
    /\ documents = SharedDocuments
    /\ dchunks = SharedChunks
    /\ vindex = SharedVectors
    /\ files = {documents[d].file_path : d \in DOMAIN documents}
    /\ doc_seq = SetMax(DOMAIN documents)
    /\ chunk_seq = SetMax(DOMAIN dchunks)
    /\ file_seq = SetMax(files)
    /\ NoChat

InitShared ==
    /\ ChunkIdle
    /\ SharedStore
    /\ dialect \in Dialects
    /\ RequestIdle
    /\ SnippetIdle

\* the text of the file a user adds to the shared store: one chunk
SharedTexts == {<<"a", "b">>}

NextShared ==
    \/ \E u \in Users, valid \in BOOLEAN, t \in SharedTexts : UploadStart(u, valid, t)
    \/ \E e \in {"null", "vector"} : UploadEmbed(e)
    \/ \E ok \in BOOLEAN : UploadUpsert(ok)
    \/ \E u \in Users, d \in DocumentIds : DeleteLookup(u, d)
    \/ \E ok \in BOOLEAN : DeleteVectors(ok)
    \/ \E u \in Users, q \in Queries, limit \in Limits, search_type \in SearchTypes :
          SearchLexical(u, q, limit, search_type)
    \/ \E e \in {"null", "vector"} : SearchEmbed(e)
    \/ SearchSemantic
    \/ \E u \in Users, d \in DocumentIds, limit \in Limits : SimilarLookup(u, d, limit)
    \/ SimilarChunk
    \/ Respond

SpecShared == InitShared /\ [][NextShared]_vars

-----------------------------------------------------------------------------
(* The chat handlers over the shared store *)

InitChat == InitShared

NextChat ==
    \/ \E u \in Users : ChatCreate(u)
    \/ \E u \in Users, sid \in SessionIds : ChatHistory(u, sid)
    \/ \E u \in Users, sid \in SessionIds : ChatSend(u, sid)
    \/ \E u \in Users, sid \in SessionIds : ChatDelete(u, sid)
    \/ \E u \in Users, sid \in SessionIds : ChatRename(u, sid)
    \/ Respond

SpecChat == InitChat /\ [][NextChat]_vars

-----------------------------------------------------------------------------
(* _extract_snippet on a bounded family of contents, queries and lengths *)

SnippetAlphabet == {"a", "A", "b"}
SnippetContents == SeqsUpTo(SnippetAlphabet, MaxContent)
SnippetQueries  == SeqsUpTo(SnippetAlphabet, MaxQuery)
SnippetLengths  == -1 .. MaxSnippet

InitSnippet ==
    /\ ChunkIdle
    /\ EmptyStore
    /\ dialect = "lenient"
    /\ RequestIdle
    /\ sn_content \in SnippetContents
    /\ sn_query \in SnippetQueries
    /\ sn_length \in SnippetLengths
    /\ snippet = <<>>
    /\ spc = "call"

NextSnippet == SnippetCall

SpecSnippet == InitSnippet /\ [][NextSnippet]_vars

-----------------------------------------------------------------------------
(* Properties of chunk_text, checked under SpecChunk *)

ValidParams == chunk_size > overlap /\ overlap >= 0

LettersAndSpaces(t) == \A i \in 1 .. Len(t) : t[i] \in {"a", " "}

\* index i (0-based) of the text lies in the window of an emitted chunk
Covered(i) == \E k \in 1 .. Len(windows) : windows[k].from <= i /\ i < windows[k].to

\* C1: chunking coverage.  For a text of lowercase letters and spaces and
\* chunkSize > overlap >= 0, once chunk_text has returned, every non-space
\* character of the trimmed text lies inside the window of an emitted chunk.
ChunkingCoverage ==
    (cpc = "done" /\ ValidParams /\ LettersAndSpaces(text))
        => \A i \in 0 .. (Len(text) - 1) : ~IsSpace(text[i + 1]) => Covered(i)

\* C6: chunk_text terminates.  Every iteration of the loop either returns or
\* strictly increases start, and the loop runs at most len(text) times, for
\* all parameters, overlap >= chunkSize included.
ChunkTermination ==
    /\ [][iters' = iters + 1 => (cpc' = "done" \/ start' > start)]_chunkVars
    /\ [](iters <= Len(text))

\* C6 witness: a call with overlap >= chunkSize has returned after several
\* iterations of the loop.
ChunkTerminationWitness ==
    cpc = "done" /\ chunk_size >= 1 /\ overlap >= chunk_size /\ iters >= 3

\* C7 as stated: for a text that is non-empty after trimming and any
\* chunkSize and overlap with overlap >= chunkSize, the returned sequence is
\* non-empty.
ProgressNonEmptyAnySize ==
    (cpc = "done" /\ overlap >= chunk_size /\ Strip(text) # <<>>) => chunks # <<>>

\* C7 amended: for a text that is non-empty after trimming, chunkSize >= 1
\* and overlap >= chunkSize, the returned sequence is non-empty.
ProgressNonEmpty ==
    (cpc = "done" /\ chunk_size >= 1 /\ overlap >= chunk_size /\ Strip(text) # <<>>)
        => chunks # <<>>

\* C7 witness: a call with overlap >= chunkSize >= 1 on a text longer than
\* chunkSize went through the loop and returned a chunk.
ProgressNonEmptyWitness ==
    /\ cpc = "done" /\ chunk_size >= 1 /\ overlap >= chunk_size
    /\ iters >= 2 /\ chunks # <<>>

\* C8 as stated: a call with malformed parameters fails at once with an
\* error; it never enters the loop and never returns a chunk sequence.
MalformedParamsRejected == Malformed => cpc \in {"entry", "error"}

\* C8 amended: a call with malformed parameters is not rejected; no error is
\* raised, the guarded loop runs at most len(text) times and the call returns
\* a chunk sequence.
MalformedParamsGuarded ==
    Malformed => (cpc \in {"entry", "loop", "done"} /\ iters <= Len(text))

\* C8 witness: a call with malformed parameters has returned chunks.
MalformedParamsGuardedWitness ==
    Malformed /\ cpc = "done" /\ iters >= 2 /\ chunks # <<>>

\* C20: single-chunk short-circuit.  chunk_text returns the empty sequence
\* when the text is empty after trimming, and the one-element sequence
\* holding the whole trimmed text when the trimmed length is at most
\* chunkSize.
SingleChunkShortCircuit ==
    cpc = "done"
        => /\ Strip(text) = <<>> => chunks = <<>>
           /\ (Strip(text) # <<>> /\ Len(Strip(text)) <= chunk_size)
                 => chunks = <<Strip(text)>>

\* C20 witness: a call on a text that trimming shortened to exactly chunkSize
\* characters returned it whole, without entering the loop.
SingleChunkShortCircuitWitness ==
    /\ cpc = "done" /\ iters = 0
    /\ Len(text) = chunk_size /\ chunk_size >= 2
    /\ chunks = <<text>>


-----------------------------------------------------------------------------
(* Properties of search_documents and find_similar_documents, checked      *)
(* under Spec                                                              *)

Searched == pc = "done" /\ req.op = "search"
Similar  == pc = "done" /\ req.op = "similar"

\* the positions of list rs that hold a match for document d
MatchesFor(rs, d) == {i \in 1 .. Len(rs) : rs[i].document_id = d}

\* the documents both passes of a search found
FoundTwice == Range(text_results) \cap hit_docs

\* C2 as stated: in mode hybrid, a document whose name or text contains the
\* query and one of whose chunks the vector index returned has exactly one
\* match in the returned list, with score 0.8.
HybridDedupAsStated ==
    (Searched /\ req.search_type = "hybrid" /\ outcome = "returned")
        => \A d \in TextMatches(req.user, req.q) \cap hit_docs :
              /\ Cardinality(MatchesFor(response, d)) = 1
              /\ \A i \in MatchesFor(response, d) : response[i].relevance_score = TextScore

\* C2 amended: in mode hybrid, a document that is among the rows the lexical
\* query returned and one of whose chunks the vector index returned has
\* exactly one match in the merged list, with score 0.8; the returned list
\* holds at most one match for it, and that match has score 0.8.
HybridDedup ==
    (Searched /\ req.search_type = "hybrid")
        => \A d \in FoundTwice :
              /\ Cardinality(MatchesFor(results, d)) = 1
              /\ \A i \in MatchesFor(results, d) : results[i].relevance_score = TextScore
              /\ Cardinality(MatchesFor(response, d)) <= 1
              /\ \A i \in MatchesFor(response, d) : response[i].relevance_score = TextScore

\* C2 witness: a hybrid search returned a document that both passes found.
HybridDedupWitness ==
    /\ Searched /\ req.search_type = "hybrid" /\ outcome = "returned"
    /\ \E d \in FoundTwice : MatchesFor(response, d) # {}

\* C3: in every list search and findSimilar return, each documentId appears
\* at most once.
UniqueDocuments ==
    pc = "done" => \A i, j \in 1 .. Len(response) :
                      response[i].document_id = response[j].document_id => i = j

\* C3 witness: findSimilar returned a document that a later hit found again.
UniqueDocumentsWitness ==
    /\ Similar /\ outcome = "returned"
    /\ \E d \in dup_docs : MatchesFor(response, d) # {}

\* C4: the returned list is sorted by non-increasing score, has at most
\* `limit` elements, and no match of the merged list that was left out has a
\* score strictly greater than a returned one.
RankedAndCut ==
    (pc = "done" /\ outcome = "returned")
        => /\ Len(response) <= req.limit
           /\ \A i \in 1 .. (Len(response) - 1) :
                 response[i].relevance_score >= response[i + 1].relevance_score
           /\ \A i \in 1 .. Len(results) :
                 MatchesFor(response, results[i].document_id) = {}
                    => \A j \in 1 .. Len(response) :
                          response[j].relevance_score >= results[i].relevance_score

\* C4 witness: a search returned `limit` matches of different scores and left
\* a match out.
RankedAndCutWitness ==
    /\ Searched /\ outcome = "returned"
    /\ Len(results) > req.limit
    /\ Len(response) >= 2
    /\ response[1].relevance_score > response[Len(response)].relevance_score

\* C5: findSimilar never returns the source document.
SelfExclusion ==
    Similar => MatchesFor(response, req.document_id) = {}

\* C5 witness: findSimilar returned matches although a hit resolved to a
\* chunk of the source document.
SelfExclusionWitness ==
    /\ Similar /\ outcome = "returned"
    /\ req.document_id \in hit_docs
    /\ response # <<>>

\* C9: when the embedding gateway returns null, a hybrid search does not
\* raise, returns what mode text returns for the same rows of the lexical
\* query and the same limit, and does not query the vector index.  It fails
\* when a commit of the logs fails (see LoggingBestEffort).
GracefulDegradation ==
    (Searched /\ req.search_type = "hybrid" /\ query_embedding = "null")
        => /\ outcome = "returned"
           /\ response = Ranked(TextPass(text_results), req.limit)
           /\ vector_queries = 0
           /\ ~sem_error

\* C10: when a step of the semantic pass of search fails, the failure is
\* caught, the transaction is rolled back, and the search returns with the
\* lexical matches in its merged list.
SemanticFailureContained ==
    (Searched /\ sem_error)
        => /\ outcome = "returned"
           /\ tx # "failed"
           /\ \A i \in 1 .. Len(text_results) :
                 MatchesFor(results, text_results[i]) # {}

\* C11: persisting the query log and the activity log of a search is
\* best-effort.  When the commit of either record fails, search still returns
\* the ranked matches it computed and does not raise.
LoggingBestEffort ==
    (Searched /\ log_fault # "none")
        => /\ outcome = "returned"
           /\ response = Ranked(results, req.limit)

\* the chunks of document d that have a stored embedding, by position
EmbeddedByPosition(d) ==
    LET E == {c \in ChunksOf(d) : dchunks[c].embedding}
    IN  CHOOSE s \in Arrangements(E, Cardinality(E)) :
            \A i \in 1 .. (Len(s) - 1) : dchunks[s[i]].position < dchunks[s[i + 1]].position

\* the source chunks findSimilar queried the index with, in order
QueriedChunks == SelectSeq(src_rows, LAMBDA c : dchunks[c].embedding)

\* C14: findSimilar queries the index with the first 3 chunks of the source
\* document, in position order, among the chunks that have a stored
\* embedding; a chunk without an embedding does not use up one of the 3
\* places, and at most 3 queries are issued.
FirstThreeEmbedded ==
    (Similar /\ outcome = "returned")
        => /\ QueriedChunks = Truncate(EmbeddedByPosition(req.document_id), SimilarChunkLimit)
           /\ vector_queries = Len(QueriedChunks)
           /\ vector_queries <= SimilarChunkLimit

\* the documents that have a match in list rs
DocsOf(rs) == {rs[i].document_id : i \in 1 .. Len(rs)}

\* C15: in search and findSimilar a hit whose id does not parse or does not
\* resolve to a chunk is skipped silently: no exception is caught or raised
\* for it, it adds no match, and the other hits of the same vector query are
\* still processed, so every document a hit resolves to (the source document
\* of findSimilar excepted) has a match in the merged list.
StaleHitsSkipped ==
    (pc = "done" /\ vector_queries > 0)
        => /\ ~sem_error
           /\ log_fault = "none" => outcome = "returned"
           /\ (answer_docs \ {req.document_id}) \subseteq DocsOf(results)
           /\ DocsOf(results) \subseteq (Range(text_results) \cup answer_docs)

\* C19: when a search is given a filter (here createdFrom), every match it
\* returns satisfies the filter, whether the match came from the lexical pass
\* or from the semantic pass.
FilterApplied ==
    (Searched /\ req.created_from # 0)
        => \A i \in 1 .. Len(response) :
              documents[response[i].document_id].created_at >= req.created_from

-----------------------------------------------------------------------------
(* Properties of upload_document, delete_document and the not-found paths, *)
(* checked under SpecStore                                                 *)

Uploaded == pc = "done" /\ req.op = "upload" /\ outcome = "returned"
Deleted  == pc = "done" /\ req.op = "delete" /\ outcome = "returned"

\* C12: no orphaned vectors.  After delete_document has completed for a
\* document, the index holds no vector whose metadata names that document,
\* whatever delete_vectors answered.
NoOrphanVectors ==
    Deleted => \A v \in vindex : v.document_id # req.document_id

\* C13: after upload_document has completed, every chunk of the document
\* whose embedding was produced has exactly one vector, under the chunk's own
\* id, whose metadata carries the document id and the owner id.
VectorPerEmbeddedChunk ==
    Uploaded
        => \A c \in ChunksOf(up_doc) :
              dchunks[c].embedding
                 => /\ Cardinality({v \in vindex : v.id = IdStr(c)}) = 1
                    /\ \A v \in vindex :
                          v.id = IdStr(c) => (v.document_id = up_doc /\ v.user_id = req.user)

\* C16: ingestion loses no chunk to an embedding or index outage.  After
\* upload_document has completed there are as many chunk rows as the chunker
\* gave chunks, each chunk's text is in a row of the document, and that row
\* has no embedding when the embedding gateway failed for the chunk, whether
\* or not the upsert succeeded.
NoChunkLost ==
    Uploaded
        => /\ Cardinality(ChunksOf(up_doc)) = Len(up_chunks)
           /\ \A i \in 1 .. Len(up_chunks) :
                 \E c \in ChunksOf(up_doc) :
                    /\ dchunks[c].content = up_chunks[i]
                    /\ dchunks[c].embedding = up_embedded[i]

\* C16 witness: an upload of two chunks completed although the embedding of
\* one chunk failed and the upsert of the other failed.
NoChunkLostWitness ==
    /\ Uploaded /\ Len(up_chunks) = 2
    /\ \E i, j \in 1 .. 2 : ~up_embedded[i] /\ up_embedded[j]
    /\ vindex = {}

\* C17: after upload_document has completed, the chunk rows of the document
\* have the positions 0..n-1, n the length of the chunker's output, each
\* once, and the row at position i holds the i-th chunk, whatever the
\* embedding and upsert calls answered.
PositionsInOrder ==
    Uploaded
        => /\ {dchunks[c].position : c \in ChunksOf(up_doc)} = 0 .. (Len(up_chunks) - 1)
           /\ Cardinality(ChunksOf(up_doc)) = Len(up_chunks)
           /\ \A c \in ChunksOf(up_doc) :
                 dchunks[c].content = up_chunks[dchunks[c].position + 1]

\* C17 witness: an upload of two chunks completed, the first chunk without an
\* embedding, the second with one and with its vector stored.
PositionsInOrderWitness ==
    /\ Uploaded /\ Len(up_chunks) = 2
    /\ up_embedded = <<FALSE, TRUE>>
    /\ vindex # {}

\* the operations that look their target up and answer not-found
LookupOps == {"similar", "get", "delete", "history", "send", "delete_session", "rename"}

\* the target of request r is absent or belongs to another user
TargetMissing(r) ==
    IF r.op \in {"similar", "get", "delete"}
    THEN r.document_id \notin DOMAIN documents \/ documents[r.document_id].user_id # r.user
    ELSE r.session_id \notin DOMAIN sessions \/ sessions[r.session_id].user_id # r.user

\* C18: findSimilar, get_document, delete_document and the chat-session
\* operations (history, send message, delete, rename), called for a document
\* or session that is absent or owned by another user, answer not-found and
\* change nothing in the store, the upload directory or the vector index.
NotFoundChangesNothing ==
    [][(pc = "idle" /\ req'.op \in LookupOps /\ TargetMissing(req'))
          => /\ pc' = "done"
             /\ outcome' = "not_found"
             /\ UNCHANGED <<documents, dchunks, vindex, files, sessions, messages>>]_vars

\* C18 witness: a delete of another user's document, which has chunks, a
\* file and a vector, was answered not-found.
NotFoundChangesNothingWitness ==
    /\ pc = "done" /\ req.op = "delete" /\ outcome = "not_found"
    /\ req.document_id \in DOMAIN documents
    /\ ChunksOf(req.document_id) # {}
    /\ vindex # {} /\ files # {}

-----------------------------------------------------------------------------
(* Further properties of chunk_text, checked under SpecChunk *)

\* C21: chunk cleanliness.  For every text, chunkSize and overlap, every
\* chunk in the list chunk_text builds and returns is non-empty and neither
\* starts nor ends with a whitespace character.
ChunksClean ==
    \A k \in 1 .. Len(chunks) :
        /\ chunks[k] # <<>>
        /\ ~IsSpace(chunks[k][1])
        /\ ~IsSpace(chunks[k][Len(chunks[k])])

\* C21 witness: chunk_text has returned several chunks and the slice of one
\* of them lost whitespace to the trimming of line 197.
ChunksCleanWitness ==
    /\ cpc = "done"
    /\ Len(chunks) >= 2
    /\ \E k \in 1 .. Len(windows) :
          Len(Slice(text, windows[k].from, windows[k].to)) > Len(chunks[k])

\* positions (0-based) of the window [st, st + cs) that hold one of `marks`
MarksIn(t, st, cs, marks) ==
    {i \in st .. (Min2(st + cs, Len(t)) - 1) : t[i + 1] \in marks}

\* the three-step rule: the last sentence terminator of the window if it lies
\* in its last 200 characters, else the last space if it lies in its last 100
\* characters, else the raw boundary
CutRule(t, st, cs) ==
    LET terminators == MarksIn(t, st, cs, {".", NL})
        spaces      == MarksIn(t, st, cs, {" "})
    IN  IF terminators # {} /\ SetMax(terminators) > st + cs - 200
        THEN SetMax(terminators) + 1
        ELSE IF spaces # {} /\ SetMax(spaces) > st + cs - 100
             THEN SetMax(spaces)
             ELSE st + cs

\* C23: boundary snapping.  For every non-final window (start + chunkSize <
\* text length) the cut chunk_text chose is the one of the three-step rule,
\* and start < end <= start + chunkSize.
BoundarySnapping ==
    \A k \in 1 .. Len(raw) :
        raw[k].from + chunk_size < Len(text)
            => /\ raw[k].to = CutRule(text, raw[k].from, chunk_size)
               /\ raw[k].from < raw[k].to
               /\ raw[k].to <= raw[k].from + chunk_size

\* C24: overlapping windows.  For chunkSize > overlap >= 0, each window after
\* the first starts at max(previous start + 1, previous end - overlap); it
\* shares at most `overlap` characters with the previous window and leaves
\* no character between the two out.
OverlappingWindows ==
    ValidParams
        => \A k \in 2 .. Len(raw) :
               /\ raw[k].from = Max2(raw[k - 1].from + 1, raw[k - 1].to - overlap)
               /\ raw[k - 1].to - raw[k].from <= overlap
               /\ raw[k].from <= raw[k - 1].to

-----------------------------------------------------------------------------
(* Properties of _extract_snippet, checked under SpecSnippet *)

\* q occurs in s when case is ignored
HasOccurrence(s, q) == Find(Lower(s), Lower(q)) # -1

\* the first occurrence of the query ends inside the window the snippet is
\* cut from
OccurrenceInWindow ==
    LET pos == Find(Lower(sn_content), Lower(sn_query))
    IN  pos + Len(sn_query) <= Max2(0, pos - (sn_length \div 2)) + sn_length

-----------------------------------------------------------------------------
(* Further properties of the retrieval handlers, checked under Spec *)

\* C25: mode gating.  A search in mode text never calls the embedding
\* gateway or the vector index, and every match it returns has the score 0.8;
\* a search in mode semantic runs no lexical scan, so every match it holds
\* comes from a hit of the vector index.
ModeGating ==
    /\ (req.op = "search" /\ req.search_type = "text")
          => /\ embed_calls = 0
             /\ vector_queries = 0
             /\ query_embedding = "unset"
             /\ \A i \in 1 .. Len(response) : response[i].relevance_score = TextScore
             /\ \A i \in 1 .. Len(results) : results[i].relevance_score = TextScore
    /\ (req.op = "search" /\ req.search_type = "semantic")
          => /\ text_results = <<>>
             /\ \A i \in 1 .. Len(results) : results[i].document_id \in hit_docs
             /\ \A i \in 1 .. Len(response) : response[i].document_id \in hit_docs

\* C25 witness: a search in mode semantic has returned a match while the
\* caller owns documents the lexical scan would have found.
ModeGatingWitness ==
    /\ Searched /\ req.search_type = "semantic"
    /\ outcome = "returned" /\ response # <<>>
    /\ \E d \in TextMatches(req.user, req.q) : ~HasMatch(response, d)


\* C28: logged count.  The results count stored in the query-log record and
\* in the activity-log record of a search equals the number of matches
\* returned to the caller, and so never exceeds `limit`.
LoggedCountIsReturned ==
    (Searched /\ outcome = "returned")
        => /\ search_query.results_count = Len(response)
           /\ activity.results_count = Len(response)
           /\ search_query.results_count <= req.limit
           /\ activity.results_count <= req.limit

-----------------------------------------------------------------------------
(* Properties of the shared store, checked under SpecShared *)

\* the chunk rows of document d
RowsOf(d) == {c \in DOMAIN dchunks : dchunks[c].document_id = d}

\* C26: cascading deletion.  After delete_document has completed for a
\* document its caller owns, the document row is gone and no chunk row refers
\* to its id, whether or not the file removal and the vector deletion
\* succeeded; no step of the handler changes another document or a chunk of
\* another document.
CascadingDelete ==
    /\ [](Deleted => /\ req.document_id \notin DOMAIN documents
                     /\ RowsOf(req.document_id) = {})
    /\ [][req'.op = "delete"
            => /\ \A d \in (DOMAIN documents) \ {req'.document_id} :
                      d \in DOMAIN documents' /\ documents'[d] = documents[d]
               /\ \A c \in (DOMAIN dchunks) \ RowsOf(req'.document_id) :
                      c \in DOMAIN dchunks' /\ dchunks'[c] = dchunks[c]]_vars

\* C26 witness: a delete has completed although neither the file nor the
\* vectors of the document could be removed, and another document with its
\* chunks is still in the store.
CascadingDeleteWitness ==
    /\ Deleted
    /\ req.document_id \in DOMAIN SharedDocuments
    /\ SharedDocuments[req.document_id].file_path \in files
    /\ \E v \in vindex : v.id \in del_ids
    /\ \E d \in DOMAIN documents : RowsOf(d) # {}

-----------------------------------------------------------------------------
(* Properties of send_message, checked under SpecChat *)

\* C29: one reply per message.  Every send_message on a session its caller
\* owns appends exactly one user message followed by exactly one assistant
\* message to the session, on success and on every error path.
OneReplyPerMessage ==
    [][(req'.op = "send" /\ OwnedSession(req'.user, req'.session_id))
          => LET old == messages[req'.session_id]
                 new == messages'[req'.session_id]
             IN  /\ Len(new) = Len(old) + 2
                 /\ SubSeq(new, 1, Len(old)) = old
                 /\ new[Len(old) + 1].role = "user"
                 /\ new[Len(old) + 2].role = "assistant"]_vars

\* C30: sources without repetition.  The sources list send_message returns
\* and stores with the assistant message holds at most one entry per
\* document.
SourcesDistinct ==
    \A sid \in DOMAIN messages :
        \A k \in 1 .. Len(messages[sid]) :
            LET sources == messages[sid][k].sources
            IN  \A i, j \in 1 .. Len(sources) :
                    i # j => sources[i].document_id # sources[j].document_id

=============================================================================
